---- MODULE Spec2Model ----
(***************************************************************************)
(* Model of the single-position futures scalping engine:                   *)
(*   src/bot/trade_engine.py   TradeEngine (run_once, scan, monitor, close, *)
(*                             position sizing)                            *)
(*   src/bot/binance_client.py BinanceFutures (order wrappers, precision)   *)
(*   src/bot/strategy.py       exit_signal                                  *)
(*                                                                         *)
(*   src/main.py               the loop around run_once, session filter     *)
(*                                                                         *)
(* One run_once invocation is one action (RunOnce).  The exchange calls a   *)
(* tick makes are appended, in program order and with their outcome, to    *)
(* the log `calls`; the exchange itself (positions, resting orders) is     *)
(* the environment, and it may fill a resting order between any two calls  *)
(* of a tick as well as between two ticks.                                 *)
(*                                                                         *)
(* Values are scaled integers:                                              *)
(*   prices      in units of 10^-3 quote currency                           *)
(*   steps       in units of 10^-2 contracts                                *)
(*   balances    in whole quote currency                                    *)
(* Prices and the spread are computed in binary floating point, as the      *)
(* code does (FromDec, FMul, FAdd, FDiv, RoundHalfEven).  Quantities and    *)
(* positions are floats as well (records of Doubles): the sizer and the     *)
(* take-profit legs send the float they computed, whatever its digits.      *)
(***************************************************************************)
EXTENDS Integers, Sequences, FiniteSets, TLC

VARIABLES
    open_symbol,    \* TradeEngine.open_symbol  (None or a symbol)
    stop_order_id,  \* TradeEngine.stop_order_id (NoneId or an order id)
    tp_orders,      \* TradeEngine.tp_orders: symbol -> list of order ids
    position,       \* exchange: signed positionAmt per symbol
    orders,         \* exchange: resting (live) protective orders
    next_id,        \* exchange: next order id to hand out
    entry_qty,      \* quantity of the last acknowledged market entry (history)
    calls,          \* exchange calls of the most recent tick, in order
    last,           \* what the most recent tick was, and the state it started in
    ticks,          \* number of run_once invocations so far
    fills,          \* number of protective orders the exchange has filled
    sz,             \* input/output of the position sizer (SizerSpec only)
    env,            \* what the exchange answers: free, or one fixed market snapshot
    rnd,             \* input/output of the rounding functions (RoundSpec only)
    sig,             \* input/output of the signal predicates (SignalSpec only)
    utc_hour         \* main loop: datetime.now(timezone.utc).hour

vars == <<open_symbol, stop_order_id, tp_orders, position, orders, next_id,
          entry_qty, calls, last, ticks, fills, sz, env, rnd, sig, utc_hour>>

----------------------------------------------------------------------------
(* Bounds of the model *)

MaxTicks == 2
MaxFills == 1
MaxScanId == 1
MaxMultiple == 12

----------------------------------------------------------------------------
(* Universe, exchange metadata and engine configuration *)

None == "None"
NoneId == 0

Symbols == {"AAAUSDT", "BBBUSDT"}

\* PRICE_FILTER.tickSize per symbol, in price units (0.01 and 0.1)
TickSize(sym) == IF sym = "AAAUSDT" THEN 10 ELSE 100

\* LOT_SIZE.stepSize per symbol, in quantity units (0.1 and 1)
StepSize(sym) == IF sym = "AAAUSDT" THEN 10 ELSE 100

Leverage == 10
PosPct == 30
SlPct == 2

----------------------------------------------------------------------------
(* Integer helpers *)

RECURSIVE Pow10(_)
Pow10(n) == IF n = 0 THEN 1 ELSE 10 * Pow10(n - 1)

----------------------------------------------------------------------------
(* Binary floating point.  The engine computes prices and the spread with   *)
(* Python floats (IEEE 754 doubles).  A double is modelled exactly, as      *)
(* sign * m * 2^e with a 53-bit integer m held as a sequence of 15-bit      *)
(* limbs (least significant first), so that every product stays inside      *)
(* 32-bit integers.  Every operation rounds to nearest, ties to even, as    *)
(* the hardware does.                                                       *)

Limb == 2^15

BigTrim[a \in Seq(Nat)] ==
    IF a = <<>> THEN a
    ELSE IF a[Len(a)] = 0 THEN BigTrim[SubSeq(a, 1, Len(a) - 1)] ELSE a

BigOfInt[n \in Nat] == IF n = 0 THEN <<>> ELSE <<n % Limb>> \o BigOfInt[n \div Limb]

BigToInt[a \in Seq(Nat)] == IF a = <<>> THEN 0 ELSE a[1] + Limb * BigToInt[Tail(a)]

\* a * k + carry for a small k (k <= 2^15)
BigMulSmall[a \in Seq(Nat), k \in Nat, carry \in Nat] ==
    IF a = <<>> THEN BigOfInt[carry]
    ELSE <<(a[1] * k + carry) % Limb>>
         \o BigMulSmall[Tail(a), k, (a[1] * k + carry) \div Limb]

BigAddC[a \in Seq(Nat), b \in Seq(Nat), carry \in Nat] ==
    IF a = <<>> /\ b = <<>> THEN BigOfInt[carry]
    ELSE LET x == IF a = <<>> THEN 0 ELSE a[1]
             y == IF b = <<>> THEN 0 ELSE b[1]
         IN  <<(x + y + carry) % Limb>>
             \o BigAddC[IF a = <<>> THEN a ELSE Tail(a),
                        IF b = <<>> THEN b ELSE Tail(b), (x + y + carry) \div Limb]

BigAdd[a \in Seq(Nat), b \in Seq(Nat)] == BigTrim[BigAddC[a, b, 0]]

\* a - b - borrow, for a >= b
BigSubB[a \in Seq(Nat), b \in Seq(Nat), borrow \in Nat] ==
    IF a = <<>> THEN <<>>
    ELSE LET t == a[1] - (IF b = <<>> THEN 0 ELSE b[1]) - borrow
         IN  <<t % Limb>> \o BigSubB[Tail(a), IF b = <<>> THEN b ELSE Tail(b),
                                     IF t < 0 THEN 1 ELSE 0]

BigSub[a \in Seq(Nat), b \in Seq(Nat)] == BigTrim[BigSubB[a, b, 0]]

\* -1, 0, 1 as a < b, a = b, a > b below limb i (both without leading zero limbs)
BigCmpFrom[a \in Seq(Nat), b \in Seq(Nat), i \in Nat] ==
    IF i = 0 THEN 0
    ELSE IF a[i] < b[i] THEN -1
    ELSE IF a[i] > b[i] THEN 1
    ELSE BigCmpFrom[a, b, i - 1]

BigCmp[a \in Seq(Nat), b \in Seq(Nat)] ==
    IF Len(a) < Len(b) THEN -1
    ELSE IF Len(a) > Len(b) THEN 1
    ELSE BigCmpFrom[a, b, Len(a)]

\* a * b, before the leading zero limbs are removed
BigMulR[a \in Seq(Nat), b \in Seq(Nat)] ==
    IF b = <<>> THEN <<>>
    ELSE BigAddC[BigMulSmall[a, b[1], 0], <<0>> \o BigMulR[a, Tail(b)], 0]

\* a * 2^n
BigShl[a \in Seq(Nat), n \in Nat] ==
    IF a = <<>> THEN a
    ELSE BigTrim[[i \in 1..(n \div 15) |-> 0] \o BigMulSmall[a, 2^(n % 15), 0]]

\* Quotient and remainder of a by a small d (d <= 2^15), from limb i down;
\* q holds the quotient limbs found so far
BigDivSmallFrom[a \in Seq(Nat), d \in Nat, i \in Nat, rem \in Nat, q \in Seq(Nat)] ==
    IF i = 0 THEN [q |-> BigTrim[q], r |-> rem]
    ELSE BigDivSmallFrom[a, d, i - 1, (rem * Limb + a[i]) % d,
                         <<(rem * Limb + a[i]) \div d>> \o q]

\* floor(a / 2^n)
BigShr[a \in Seq(Nat), n \in Nat] ==
    IF Len(a) <= n \div 15 THEN <<>>
    ELSE BigDivSmallFrom[SubSeq(a, n \div 15 + 1, Len(a)), 2^(n % 15),
                         Len(a) - n \div 15, 0, <<>>].q

BitLen[x \in Nat] == IF x = 0 THEN 0 ELSE 1 + BitLen[x \div 2]

BigBitLen[a \in Seq(Nat)] == IF a = <<>> THEN 0 ELSE 15 * (Len(a) - 1) + BitLen[a[Len(a)]]

\* a / 2^n rounded to the nearest integer, ties to even; sticky says that
\* the exact value lies a little above a
BigShrRound[a \in Seq(Nat), n \in Nat, sticky \in BOOLEAN] ==
    IF n = 0 THEN a
    ELSE LET Up[q \in Seq(Nat), c \in Int] ==
                 IF c > 0 \/ (c = 0 /\ (sticky \/ (q # <<>> /\ q[1] % 2 = 1)))
                 THEN BigAdd[q, <<1>>] ELSE q
             Half[q \in Seq(Nat)] ==
                 Up[q, BigCmp[BigSub[a, BigShl[q, n]], BigShl[<<1>>, n - 1]]]
         IN  Half[BigShr[a, n]]

FZero == [s |-> 1, m |-> <<>>, e |-> 0]

\* sign * big * 2^e rounded to a double (53 bits; a carry out of the
\* rounding gives 54 bits and one more shift)
FNorm[s \in {-1, 1}, big \in Seq(Nat), e \in Int, sticky \in BOOLEAN] ==
    LET Pack[len \in Nat, q \in Seq(Nat)] ==
            IF BigBitLen[q] = 54
            THEN [s |-> s, m |-> BigShr[q, 1], e |-> e + (len - 53) + 1]
            ELSE [s |-> s, m |-> q, e |-> e + (len - 53)]
        Fit[len \in Nat] ==
            IF len <= 53
            THEN [s |-> s, m |-> BigShl[big, 53 - len], e |-> e - (53 - len)]
            ELSE Pack[len, BigShrRound[big, len - 53, sticky]]
    IN  IF big = <<>> THEN FZero ELSE Fit[BigBitLen[big]]

\* The doubles: sign, significand, exponent
Doubles == [s : {-1, 1}, m : Seq(Nat), e : Int]

\* float("n / 10^k"): the double nearest to a decimal (k <= 4)
FromDec[n \in Int, k \in Nat] ==
    IF n = 0 THEN FZero
    ELSE LET big == BigShl[BigOfInt[IF n < 0 THEN -n ELSE n], 75]
             x   == BigDivSmallFrom[big, Pow10(k), Len(big), 0, <<>>]
         IN  FNorm[IF n < 0 THEN -1 ELSE 1, x.q, -75, x.r # 0]

FMul[a \in Doubles, b \in Doubles] ==
    IF a.m = <<>> \/ b.m = <<>> THEN FZero
    ELSE FNorm[a.s * b.s, BigTrim[BigMulR[a.m, b.m]], a.e + b.e, FALSE]

FAdd[a \in Doubles, b \in Doubles] ==
    IF a.m = <<>> THEN (IF b.m = <<>> THEN FZero ELSE b)
    ELSE IF b.m = <<>> THEN a
    ELSE LET e == IF a.e < b.e THEN a.e ELSE b.e
             Sum[x \in Seq(Nat), y \in Seq(Nat), c \in Int] ==
                 IF a.s # b.s /\ c = 0 THEN FZero
                 ELSE FNorm[IF a.s = b.s \/ c > 0 THEN a.s ELSE b.s,
                            IF a.s = b.s THEN BigAdd[x, y]
                            ELSE BigSub[IF c > 0 THEN x ELSE y,
                                        IF c > 0 THEN y ELSE x],
                            e, FALSE]
             Aligned[x \in Seq(Nat), y \in Seq(Nat)] == Sum[x, y, BigCmp[x, y]]
         IN  Aligned[BigShl[a.m, a.e - e], BigShl[b.m, b.e - e]]

FSub[a \in Doubles, b \in Doubles] == FAdd[a, [b EXCEPT !.s = -@]]

\* Long division of two 53-bit integers, bit by bit: q is floor(x * 2^(k-1) / y)
\* after k steps, and sticky says whether a remainder is left
DivBits[r \in Seq(Nat), y \in Seq(Nat), k \in Nat, q \in Seq(Nat)] ==
    IF k = 0 THEN [q |-> q, sticky |-> r # <<>>]
    ELSE IF BigCmp[r, y] >= 0
         THEN DivBits[BigShl[BigSub[r, y], 1], y, k - 1, BigAdd[BigShl[q, 1], <<1>>]]
         ELSE DivBits[BigShl[r, 1], y, k - 1, BigShl[q, 1]]

\* a / b for b # 0
FDiv[a \in Doubles, b \in Doubles] ==
    IF a.m = <<>> THEN FZero
    ELSE LET d == DivBits[a.m, b.m, 57, <<>>]
         IN  FNorm[a.s * b.s, d.q, a.e - b.e - 56, d.sticky]

\* -1, 0 or 1 as a < 0, a = 0, a > 0; a < b is FSign[FSub[a, b]] = -1
FSign[a \in Doubles] == IF a.m = <<>> THEN 0 ELSE a.s

\* round(a, prec) of a numpy.float64 a (the last close and every value
\* computed from it), as an integer number of 10^-prec: numpy scales first
\* and rounds then, rint(a * 10^prec), ties to even; the value returned,
\* that integer / 10^prec, is the double nearest to the decimal
RoundHalfEven[a \in Doubles, prec \in Nat] ==
    LET Rint[p \in Doubles] ==
            IF p.m = <<>> THEN 0
            ELSE p.s * BigToInt[IF p.e >= 0 THEN BigShl[p.m, p.e]
                                ELSE BigShrRound[p.m, -p.e, FALSE]]
    IN  Rint[FMul[a, FromDec[Pow10(prec), 0]]]

----------------------------------------------------------------------------
(* Price precision and rounding *)

\* int(round(-log10(tick))) for a tick given in price units (tick/1000):
\* the n with 10^(2.5-n) < tick < 10^(3.5-n), compared on the squares.
PricePrecision(tick) ==
    CHOOSE n \in 0..3 :
        /\ 10 * tick * tick > Pow10(6 - 2 * n)
        /\ 10 * tick * tick < Pow10(8 - 2 * n)

\* self._prec[sym]
Prec(sym) == PricePrecision(TickSize(sym))

\* round(a, prec) of a double a, in price units (prec <= 3)
RoundPrice(a, prec) == RoundHalfEven[a, prec] * Pow10(3 - prec)

\* round(price * (1 - sl_pct), prec): price in price units, sl_pct in percent
\* (the float 0.02 for 2)
SlPrice(price, sl_pct, prec) ==
    RoundPrice(FMul[FromDec[price, 3], FSub[FromDec[1, 0], FromDec[sl_pct, 2]]], prec)

\* round(price + 0.6 * atr, prec) and round(price + 1.2 * atr, prec)
Tp1Price(price, atr, prec) ==
    RoundPrice(FAdd[FromDec[price, 3], FMul[FromDec[6, 1], FromDec[atr, 3]]], prec)
Tp2Price(price, atr, prec) ==
    RoundPrice(FAdd[FromDec[price, 3], FMul[FromDec[12, 1], FromDec[atr, 3]]], prec)

\* qty * 0.30: the quantity of each take-profit leg, the float product as it
\* is sent (not rounded to the step)
TpQty(qty) == FMul[qty, FromDec[30, 2]]

----------------------------------------------------------------------------
(* Position sizing.  Quantities are floats: what _position_size returns is  *)
(* sent to the exchange as it is.  step is in quantity units (10^-2).       *)

\* _round_qty: float((Decimal(qty) // step) * step).  Decimal(qty) is the
\* exact value of the float, // truncates toward zero, and the product, a
\* decimal multiple of the step, is converted to the nearest float
RoundQty[step \in Nat, qty \in Doubles] ==
    LET cents == BigTrim[BigMulSmall[qty.m, 100, 0]]
        whole == IF qty.e >= 0 THEN BigShl[cents, qty.e] ELSE BigShr[cents, -qty.e]
        k     == BigToInt[BigDivSmallFrom[whole, step, Len(whole), 0, <<>>].q]
    IN  FromDec[qty.s * k * step, 2]

\* while qty * price < tgt_notional * 0.97: qty += float(step)
\* (lim is the product tgt_notional * 0.97)
SizeLoop[qty \in Doubles, price \in Doubles, lim \in Doubles, step \in Doubles] ==
    IF FSign[FSub[FMul[qty, price], lim]] = -1
    THEN SizeLoop[FAdd[qty, step], price, lim, step]
    ELSE qty

\* tgt_notional = bal * self.pos_pct * self.leverage, pos_pct in percent
\* (the float 0.3 for 30)
TgtNotional(bal, pos_pct, lev) ==
    FMul[FMul[FromDec[bal, 0], FromDec[pos_pct, 2]], FromDec[lev, 0]]

\* max(qty, float(step))
AtLeastStep[qty \in Doubles, step \in Doubles] ==
    IF FSign[FSub[step, qty]] = 1 THEN step ELSE qty

\* A sizer with a hidden counter: one step more per tick already run
PositionSizeCounting(bal, pos_pct, lev, price, step) ==
    FAdd[AtLeastStep[SizeLoop[RoundQty[step, FDiv[TgtNotional(bal, pos_pct, lev),
                                                  FromDec[price, 3]]],
                              FromDec[price, 3],
                              FMul[TgtNotional(bal, pos_pct, lev), FromDec[97, 2]],
                              FromDec[step, 2]],
                     FromDec[step, 2]],
         FromDec[ticks * step, 2]]

\* _position_size, given the balance the exchange returned
PositionSize(bal, pos_pct, lev, price, step) ==
    AtLeastStep[SizeLoop[RoundQty[step, FDiv[TgtNotional(bal, pos_pct, lev),
                                             FromDec[price, 3]]],
                         FromDec[price, 3],
                         FMul[TgtNotional(bal, pos_pct, lev), FromDec[97, 2]],
                         FromDec[step, 2]],
                FromDec[step, 2]]

----------------------------------------------------------------------------
(* Filters and signals *)

\* bid = float(ob["bids"][0][0]) is 0.0: the division raises ZeroDivisionError
SpreadRaises(ob) == ob.bids # <<>> /\ ob.asks # <<>> /\ ob.bids[1] = 0

\* _spread_ok on the best bid and ask, in floats: (ask - bid) / bid < 0.0002;
\* an empty side of the book is a rejection
SpreadOk(ob) ==
    IF ob.bids = <<>> \/ ob.asks = <<>> \/ SpreadRaises(ob) THEN FALSE
    ELSE LET bid == FromDec[ob.bids[1], 3]
             ask == FromDec[ob.asks[1], 3]
             d   == FSub[FDiv[FSub[ask, bid], bid], FromDec[2, 4]]
         IN  d.m # <<>> /\ d.s < 0

\* _vol_ok on mean and sample deviation of the last 30 absolute returns:
\* sigma / (mu or 1e-8) >= min_vol_ratio (2.0)
VolOk(df) ==
    IF df.mu = 0 THEN df.sigma > 0 ELSE df.sigma >= 2 * df.mu

NaN == -1

GeNum(x, y) == x # NaN /\ x >= y
LtNum(x, y) == x # NaN /\ x < y

\* exit_signal on the last three RSI values (rsi_hi = 70, rsi_fall = 60)
ExitSignal(rsi) ==
    LET was_high == \E i \in 1..3 : GeNum(rsi[i], 70)
        fell     == GeNum(rsi[2], 60) /\ LtNum(rsi[3], 60)
    IN  was_high /\ fell

\* Comparisons of two indicator values: false when either is NaN
LtVal(x, y) == x # NaN /\ y # NaN /\ x < y
GtVal(x, y) == x # NaN /\ y # NaN /\ x > y

\* ttm_entry_signal on the values it reads: bb_w and kc_w of the previous and
\* the latest bar, the latest close, the VAH and the latest RSI
TtmEntrySignal(s) ==
    IF s.len < 100 THEN FALSE
    ELSE LET prev_in_squeeze == LtVal(s.bb_w[1], s.kc_w[1])
             now_out_of_sqz  == GtVal(s.bb_w[2], s.kc_w[2])
             squeeze_release == prev_in_squeeze /\ now_out_of_sqz
             vah_break       == GtVal(s.close, s.vah)
             rsi_ok          == GeNum(s.rsi[3], 65)
         IN  squeeze_release /\ vah_break /\ rsi_ok

----------------------------------------------------------------------------
(* Market data the exchange can return *)

\* How an exchange call ends: a result, a BinanceAPIException, or any other
\* exception (transport error)
Outcomes == {"ok", "api", "exc"}

\* futures_ticker: 24 h tickers in the order the exchange lists them
TickerFeeds ==
    {<<>>}
    \cup { <<[symbol |-> "AAAUSDT", pct |-> a], [symbol |-> "BBBUSDT", pct |-> b]>> :
             a \in {1, 2}, b \in {1, 2} }
    \cup { <<[symbol |-> "BTCUSDC", pct |-> 3], [symbol |-> "BBBUSDT", pct |-> 1]>> }

\* futures_order_book: best bid and ask in price units (empty, spreads of
\* 1 bp, exactly 2 bp and 3 bp, and a bid of zero)
OrderBooks ==
    { [bids |-> <<>>, asks |-> <<>>],
      [bids |-> <<100000>>, asks |-> <<100010>>],
      [bids |-> <<100000>>, asks |-> <<100020>>],
      [bids |-> <<100000>>, asks |-> <<100030>>],
      [bids |-> <<0>>, asks |-> <<10>>] }

\* _spread_ok on each of these books, computed once
SpreadVerdict == [ob \in OrderBooks |-> SpreadOk(ob)]

\* Last close and ATR of a symbol's candles, in price units
ClosePrice(sym) == IF sym = "AAAUSDT" THEN 50000 ELSE 333330
AtrValue(sym) == IF sym = "AAAUSDT" THEN 75 ELSE 1250

\* sl_price, tp1_price and tp2_price of an entry on a symbol at a last close
\* and an ATR, computed once for the values the candles carry
EntryPrices ==
    [sym \in Symbols |->
        [price \in {ClosePrice(sym)} |->
            [atr \in {AtrValue(sym)} |->
                [sl  |-> SlPrice(price, SlPct, Prec(sym)),
                 tp1 |-> Tp1Price(price, atr, Prec(sym)),
                 tp2 |-> Tp2Price(price, atr, Prec(sym))]]]]

\* futures_klines + add_indicators for a scanned symbol: number of candles,
\* the statistics _vol_ok reads, the two entry predicates, last close and ATR
ScanFrames(sym) ==
    { [len |-> n, mu |-> 1, sigma |-> sg, sig_a |-> a, sig_b |-> b,
       close |-> ClosePrice(sym), atr |-> AtrValue(sym), rsi |-> <<NaN, NaN, NaN>>] :
         n \in {0, 59, 200}, sg \in {1, 3}, a \in BOOLEAN, b \in BOOLEAN }

RsiValues == {NaN, 50, 65, 75}

\* futures_klines + indicators for the open symbol: candles and last three RSI
MonitorFrames ==
    { [len |-> n, mu |-> 0, sigma |-> 0, sig_a |-> FALSE, sig_b |-> FALSE,
       close |-> 0, atr |-> 0, rsi |-> r] : n \in {0, 200}, r \in [1..3 -> RsiValues] }

\* futures_account_balance: USDT balance in whole quote currency
Balances == {0, 1000}

\* _position_size(symbol, price, balance), computed once for the balances
\* the exchange reports and the last close the candles carry
EntrySizes ==
    [bal \in Balances |->
        [sym \in Symbols |->
            [price \in {ClosePrice(sym)} |->
                PositionSize(bal, PosPct, Leverage, price, StepSize(sym))]]]

\* qty * 0.30 for each of these sizes, computed once
TpQtys ==
    [qty \in { EntrySizes[bal][sym][ClosePrice(sym)] :
                 bal \in Balances, sym \in Symbols } |->
        TpQty(qty)]

----------------------------------------------------------------------------
(* The environment of a tick.  A free environment answers every call with   *)
(* any outcome and any data.  A fixed environment is one market snapshot:   *)
(* the same data and the same outcome per kind of call, each time it is     *)
(* asked.  A reliable environment returns any data and never fails.  With   *)
(* sigint a KeyboardInterrupt can be raised anywhere in run_once: while a   *)
(* call is in flight ("int"), or between two statements, so that the next   *)
(* call is never made ("pre").                                              *)

FreeEnv == [fixed |-> FALSE, sigint |-> FALSE, reliable |-> FALSE]

\* Every call is answered, with any data, unless the interrupt is raised first;
\* it can be raised at any statement of the tick
SigintEnv == [fixed |-> FALSE, sigint |-> TRUE, reliable |-> TRUE]

\* Any data, and every call is answered
ReliableEnv == [fixed |-> FALSE, sigint |-> FALSE, reliable |-> TRUE]

\* How a call of this kind can end
Ends(c, kind) ==
    IF c.env.fixed THEN {IF kind \in c.env.fails THEN "api" ELSE "ok"}
    ELSE (IF c.env.reliable THEN {"ok"} ELSE Outcomes)
         \cup (IF c.env.sigint THEN {"int", "pre"} ELSE {})

\* The contexts of S with a KeyboardInterrupt raised at the statement they
\* have reached (no other exception is propagating there)
Interrupts(S) ==
    { [x EXCEPT !.status = "int"] :
        x \in { y \in S : y.env.sigint /\ y.status \in {"run", "api"} } }

Feeds(c) == IF c.env.fixed THEN {c.env.feed} ELSE TickerFeeds

Books(c, sym) == IF c.env.fixed THEN {c.env.book[sym]} ELSE OrderBooks

Frames(c, sym, any) == IF c.env.fixed THEN {c.env.frame[sym]} ELSE any

Bals(c) == IF c.env.fixed THEN {c.env.bal} ELSE Balances

----------------------------------------------------------------------------
(* Tick context: engine fields, exchange state and the call log, threaded   *)
(* through the statements of one run_once.  status is "run" while no        *)
(* exception is in flight, else the kind of exception being raised.         *)

CallRec(op, sym, side, type, qty, price, id, res, val) ==
    [op |-> op, sym |-> sym, side |-> side, type |-> type, qty |-> qty,
     price |-> price, id |-> id, res |-> res, val |-> val]

\* A call the interrupt came before is not made
Log(c, rec) == IF rec.res = "pre" THEN c ELSE [c EXCEPT !.calls = Append(@, rec)]

\* The exception in flight; the interrupt is a KeyboardInterrupt wherever
\* it is raised
Raise(c, o) == [c EXCEPT !.status = IF o = "pre" THEN "int" ELSE o]

\* Sequencing: run F on every context still running, keep the raised ones
Then(S, F(_)) == UNION { IF x.status = "run" THEN F(x) ELSE {x} : x \in S }

LiveIds(c) == { x.id : x \in c.orders }

\* run_once is not atomic: between two of its REST calls the exchange may fill
\* resting orders (SELLs): a filled order leaves the book and the position
\* moves.  The contexts the next call can be served in.
RECURSIVE Meanwhile(_)
Meanwhile(c) ==
    {c} \cup (IF c.fills < MaxFills
              THEN UNION { Meanwhile([c EXCEPT !.orders = @ \ {x},
                                               !.position[x.sym] = FSub[@, x.qty],
                                               !.fills = @ + 1]) : x \in c.orders }
              ELSE {})

----------------------------------------------------------------------------
(* The exchange (ExecutionPort / MarketDataPort): effect of each REST call  *)

\* A market order moves the position; a stop or limit order rests.
FuturesCreateOrder(c, sym, side, type, qty, price, o) ==
    LET id == IF o = "ok" THEN c.next_id ELSE NoneId
        c1 == Log(c, CallRec("futures_create_order", sym, side, type, qty,
                             price, id, o, 0))
    IN  IF o # "ok" THEN Raise(c1, o)
        ELSE IF type = "MARKET"
        THEN [c1 EXCEPT !.next_id = @ + 1,
                        !.position[sym] = IF side = "BUY" THEN FAdd[@, qty]
                                          ELSE FSub[@, qty]]
        ELSE [c1 EXCEPT !.next_id = @ + 1,
                        !.orders = @ \cup {[id |-> id, sym |-> sym, type |-> type,
                                            side |-> side, qty |-> qty]}]

\* Cancelling an order that no longer rests is rejected by the exchange.
CancelOutcomes(c, oid) ==
    IF oid \in LiveIds(c) THEN Ends(c, "futures_cancel_order")
    ELSE (Ends(c, "futures_cancel_order") \ {"ok"}) \cup {"api"}

FuturesCancelOrder(c, sym, oid, o) ==
    LET c1 == Log(c, CallRec("futures_cancel_order", sym, "", "", FZero, 0, oid, o, 0))
    IN  IF o # "ok" THEN Raise(c1, o)
        ELSE [c1 EXCEPT !.orders = { x \in @ : x.id # oid }]

FuturesPositionInformation(c, sym, o) ==
    LET v  == IF o = "ok" THEN c.position[sym] ELSE FZero
        c1 == Log(c, CallRec("futures_position_information", sym, "", "", FZero, 0,
                             NoneId, o, v))
    IN  IF o # "ok" THEN Raise(c1, o) ELSE c1

FuturesChangeLeverage(c, sym, lev, o) ==
    LET c1 == Log(c, CallRec("futures_change_leverage", sym, "", "", FZero, 0,
                             NoneId, o, lev))
    IN  IF o # "ok" THEN Raise(c1, o) ELSE c1

FuturesAccountBalance(c, bal, o) ==
    LET c1 == Log(c, CallRec("futures_account_balance", "", "", "", FZero, 0,
                             NoneId, o, IF o = "ok" THEN bal ELSE 0))
    IN  IF o # "ok" THEN Raise(c1, o) ELSE c1

FuturesOrderBook(c, sym, o) ==
    LET c1 == Log(c, CallRec("futures_order_book", sym, "", "", FZero, 0, NoneId, o, 0))
    IN  IF o # "ok" THEN Raise(c1, o) ELSE c1

FuturesKlines(c, sym, o) ==
    LET c1 == Log(c, CallRec("futures_klines", sym, "", "", FZero, 0, NoneId, o, 0))
    IN  IF o # "ok" THEN Raise(c1, o) ELSE c1

FuturesTicker(c, o) ==
    LET c1 == Log(c, CallRec("futures_ticker", "", "", "", FZero, 0, NoneId, o, 0))
    IN  IF o # "ok" THEN Raise(c1, o) ELSE c1

----------------------------------------------------------------------------
(* BinanceFutures wrappers (binance_client.py) *)

\* An open_long that logged the error and returned instead of re-raising it
OpenLongSwallowing(c, sym, qty, o) ==
    [FuturesCreateOrder(c, sym, "BUY", "MARKET", qty, 0, o) EXCEPT !.status = "run"]

\* open_long: market BUY; a BinanceAPIException is logged and re-raised
OpenLong(c, sym, qty, o) ==
    LET c1 == FuturesCreateOrder(c, sym, "BUY", "MARKET", qty, 0, o)
    IN  IF c1.status = "run" THEN [c1 EXCEPT !.entry_qty = qty] ELSE c1

\* stop_market: STOP_MARKET order; a BinanceAPIException is logged and re-raised
StopMarket(c, sym, side, qty, stop_price, o) ==
    FuturesCreateOrder(c, sym, side, "STOP_MARKET", qty, stop_price, o)

\* cancel_order: a BinanceAPIException is logged and swallowed
CancelOrder(c, sym, oid, o) ==
    LET c1 == FuturesCancelOrder(c, sym, oid, o)
    IN  IF c1.status = "api" THEN [c1 EXCEPT !.status = "run"] ELSE c1

\* set_leverage: a BinanceAPIException is logged and swallowed
SetLeverage(c, sym, lev, o) ==
    LET c1 == FuturesChangeLeverage(c, sym, lev, o)
    IN  IF c1.status = "api" THEN [c1 EXCEPT !.status = "run"] ELSE c1

\* A closing order sized from the quantity remembered at entry
CloseQtyCached(c, pos) == c.entry_qty

\* quantity=abs(pos) of the closing order
CloseQty(c, pos) == [pos EXCEPT !.s = 1]

\* close_position: query the live position, then a market order of the
\* opposite side for its absolute size; nothing is sent when it is flat
ClosePosition(c0, sym) ==
    UNION { LET c1  == FuturesPositionInformation(c, sym, o)
                pos == c1.position[sym]
            IN  IF c1.status # "run" THEN {c1}
                ELSE IF FSign[pos] = 0 THEN {c1}
                ELSE { FuturesCreateOrder(d, sym, IF FSign[pos] > 0 THEN "SELL" ELSE "BUY",
                                          "MARKET", CloseQty(d, pos), 0, o2) :
                         o2 \in Ends(c1, "MARKET"), d \in Meanwhile(c1) }
          : o \in Ends(c0, "futures_position_information"), c \in Meanwhile(c0) }

\* Stable sort of tickers by descending pct (sorted(..., reverse=True))
RECURSIVE InsertDesc(_, _)
InsertDesc(sorted, t) ==
    IF sorted = <<>> THEN <<t>>
    ELSE IF Head(sorted).pct >= t.pct
         THEN <<Head(sorted)>> \o InsertDesc(Tail(sorted), t)
         ELSE <<t>> \o sorted

RECURSIVE SortDesc(_)
SortDesc(ts) ==
    IF ts = <<>> THEN <<>>
    ELSE InsertDesc(SortDesc(SubSeq(ts, 1, Len(ts) - 1)), ts[Len(ts)])

\* top_alt_movers(limit): tradable symbols only, descending 24 h change;
\* movers[:limit] if limit else movers (a limit of 0 keeps all of them, a
\* negative one drops that many from the end)
TopAltMovers(feed, limit) ==
    LET alt    == SelectSeq(feed, LAMBDA t : t.symbol \in Symbols)
        movers == SortDesc(alt)
        n      == IF limit = 0 THEN Len(movers)
                  ELSE IF Len(movers) + limit < 0 THEN 0
                  ELSE IF limit < 0 THEN Len(movers) + limit
                  ELSE IF Len(movers) < limit THEN Len(movers) ELSE limit
    IN  [i \in 1..n |-> movers[i].symbol]

----------------------------------------------------------------------------
(* TradeEngine: closing and monitoring (trade_engine.py) *)

\* self.tp_orders.get(self.open_symbol, [])
TpIds(c) ==
    IF c.open_symbol \in DOMAIN c.tp_orders THEN c.tp_orders[c.open_symbol] ELSE <<>>

\* The cancel without the engine's own try/except around it
TryCancelUnguarded(c, sym, oid, o) == CancelOrder(c, sym, oid, o)

\* except Exception: catches everything but a KeyboardInterrupt
Swallow(c) == IF c.status \in {"api", "exc"} THEN [c EXCEPT !.status = "run"] ELSE c

\* try: self.c.cancel_order(...)  except Exception: pass
TryCancel(c, sym, oid, o) == Swallow(CancelOrder(c, sym, oid, o))

\* for oid in tp_orders.get(open_symbol, []): try cancel
RECURSIVE CancelTps(_, _, _)
CancelTps(c, ids, i) ==
    IF i > Len(ids) THEN {c}
    ELSE Then(UNION { { TryCancel(d, d.open_symbol, ids[i], o) :
                          o \in CancelOutcomes(d, ids[i]) } : d \in Meanwhile(c) },
              LAMBDA x : CancelTps(x, ids, i + 1))

\* try: self.c.cancel_order(self.open_symbol, self.stop_order_id)
CancelStop(c) ==
    UNION { { TryCancel(d, d.open_symbol, d.stop_order_id, o) :
                o \in CancelOutcomes(d, d.stop_order_id) } : d \in Meanwhile(c) }

\* PNL query, then tp_orders.pop(open_symbol), then open_symbol and
\* stop_order_id are set to None, one store after the other
PnlAndClear(c0) ==
    UNION { LET c1 == FuturesPositionInformation(c, c.open_symbol, o)
                s1 == [c1 EXCEPT !.tp_orders =
                                    [s \in (DOMAIN @) \ {c.open_symbol} |-> @[s]]]
                s2 == [s1 EXCEPT !.open_symbol = None]
                s3 == [s2 EXCEPT !.stop_order_id = NoneId]
            IN  IF c1.status # "run" THEN {c1} ELSE {s3} \cup Interrupts({c1, s1, s2})
          : o \in Ends(c0, "futures_position_information"), c \in Meanwhile(c0) }

\* A _close_position that sends the market close before the cancels
ClosePositionRunsCloseFirst(c) ==
    Then(Then(Then(ClosePosition(c, c.open_symbol),
                   LAMBDA x : CancelTps(x, TpIds(x), 1)),
              CancelStop),
         PnlAndClear)

\* _close_position: cancel TP legs, cancel SL, market close, log PNL, clear
ClosePositionRuns(c) ==
    Then(Then(Then(CancelTps(c, TpIds(c), 1),
                   CancelStop),
              LAMBDA x : ClosePosition(x, x.open_symbol)),
         PnlAndClear)

\* The frame _load_klines returns when the call raised or returned no candles
EmptyFrame ==
    [len |-> 0, mu |-> 0, sigma |-> 0, sig_a |-> FALSE, sig_b |-> FALSE,
     close |-> 0, atr |-> 0, rsi |-> <<NaN, NaN, NaN>>]

\* _load_klines: the frames it can return after the klines call ended with o
\* (try: raw = klines(...)  except Exception: return pd.DataFrame())
LoadKlines(frames, o) == IF o = "ok" THEN frames ELSE {EmptyFrame}

\* if not df.empty and exit_signal(df)
ExitFires(df) == df.len # 0 /\ ExitSignal(df.rsi)

\* _monitor_position: when the exit predicate fires, _close_position
MonitorPosition(c0) ==
    UNION { LET c1  == Swallow(FuturesKlines(c, c.open_symbol, o))
                dfs == LoadKlines(Frames(c, c.open_symbol, MonitorFrames), o)
            IN  IF c1.status # "run" THEN {c1}
                ELSE (IF \E df \in dfs : ExitFires(df)
                      THEN ClosePositionRuns([c1 EXCEPT !.exit = TRUE]) ELSE {})
                     \cup
                     (IF \E df \in dfs : ~ExitFires(df) THEN {c1} ELSE {})
          : o \in Ends(c0, "futures_klines"), c \in Meanwhile(c0) }

----------------------------------------------------------------------------
(* TradeEngine: scanning and entry (trade_engine.py) *)

\* Order ids of the three protective orders just placed (sl_ord, tp1, tp2)
PlacedIds(c) ==
    LET n == Len(c.calls) IN <<c.calls[n - 2].id, c.calls[n - 1].id, c.calls[n].id>>

\* A record of the entry that stores the symbol alone
RecordOpenSymbolOnly(c, sym) == { [c EXCEPT !.open_symbol = sym] }

\* open_symbol = sym; stop_order_id = sl_ord["orderId"]; tp_orders[sym] = [tp1, tp2]:
\* three statements
RecordOpen(c, sym) ==
    LET ids == PlacedIds(c)
        s1  == [c EXCEPT !.open_symbol = sym]
        s2  == [s1 EXCEPT !.stop_order_id = ids[1]]
        s3  == [s2 EXCEPT !.tp_orders = [s \in (DOMAIN @) \cup {sym} |->
                                           IF s = sym THEN <<ids[2], ids[3]>> ELSE @[s]]]
    IN  {s3} \cup Interrupts({c, s1, s2})

\* Lines 106-127: leverage, market entry, stop-loss, two take-profit legs,
\* then the position is recorded; p holds the three prices and tpq the
\* quantity of a take-profit leg
PlaceOrders(c, sym, qty, p, tpq) ==
    LET lev  == { SetLeverage(d, sym, Leverage, o) :
                    o \in Ends(c, "futures_change_leverage"), d \in Meanwhile(c) }
        buy  == Then(lev, LAMBDA x :
                  { OpenLong(d, sym, qty, o) :
                      o \in Ends(x, "MARKET"), d \in Meanwhile(x) })
        sl   == Then(buy, LAMBDA x :
                  { StopMarket(d, sym, "SELL", qty, p.sl, o) :
                      o \in Ends(x, "STOP_MARKET"), d \in Meanwhile(x) })
        tp1  == Then(sl, LAMBDA x :
                  { FuturesCreateOrder(d, sym, "SELL", "LIMIT", tpq, p.tp1, o) :
                      o \in Ends(x, "LIMIT"), d \in Meanwhile(x) })
        tp2  == Then(tp1, LAMBDA x :
                  { FuturesCreateOrder(d, sym, "SELL", "LIMIT", tpq, p.tp2, o) :
                      o \in Ends(x, "LIMIT"), d \in Meanwhile(x) })
    IN  Then(tp2, LAMBDA x : RecordOpen(x, sym))

\* Lines 109-123: the prices and the take-profit quantity of the entry
PlaceEntry(c, sym, qty, price, atr) ==
    PlaceOrders(c, sym, qty, EntryPrices[sym][price][atr], TpQtys[qty])

\* balance_usdt(): the call and the balance it returns
BalanceUsdt(c0) ==
    UNION { IF o = "ok" THEN { FuturesAccountBalance(c, bal, o) : bal \in Bals(c) }
            ELSE { FuturesAccountBalance(c, 0, o) }
          : o \in Ends(c0, "futures_account_balance"), c \in Meanwhile(c0) }

\* The balance the last call returned
LastVal(c) == c.calls[Len(c.calls)].val

RECURSIVE ScanFrom(_, _, _)

\* Step 5 of the loop body: size, skip when qty <= 0, else place the entry
Enter(c, movers, i, df) ==
    LET sym == movers[i]
    IN  Then(BalanceUsdt(c), LAMBDA x :
          LET qty == EntrySizes[LastVal(x)][sym][df.close]
          IN  IF FSign[qty] <= 0 THEN ScanFrom(x, movers, i + 1)
              ELSE PlaceEntry(x, sym, qty, df.close, df.atr))

\* A scan that lets every frame through
ScanPassesAny(df) == TRUE

\* Steps 2-4 of the loop body pass: enough candles, volatility, both predicates
ScanPasses(df) ==
    /\ ~(df.len = 0 \/ df.len < 60)
    /\ VolOk(df)
    /\ df.sig_a /\ df.sig_b

\* What is evaluated on the frame of a candidate, in program order:
\* add_indicators inside _load_klines (not reached for an empty answer), the
\* length test, _vol_ok, then the entry predicates
StepsOf(df) ==
    IF df.len = 0 THEN <<>>
    ELSE <<"indicators">> \o
         (IF df.len < 60 THEN <<>>
          ELSE <<"volatility">> \o (IF VolOk(df) THEN <<"signal">> ELSE <<>>))

\* The evaluations of a tick are recorded under a fixed environment
Trace(c, sym, steps) ==
    IF c.env.fixed
    THEN [c EXCEPT !.steps = @ \o [k \in 1..Len(steps) |->
                                     [sym |-> sym, step |-> steps[k]]]]
    ELSE c

\* Steps 2-4 of the loop body: candles, volatility filter, entry predicates;
\* a candidate that fails one is skipped (continue)
AfterSpread(c0, movers, i) ==
    UNION { LET c1  == Swallow(FuturesKlines(c, movers[i], o))
                dfs == LoadKlines(Frames(c, movers[i], ScanFrames(movers[i])), o)
            IN  IF c1.status # "run" THEN {c1}
                ELSE UNION { ScanFrom(x, movers, i + 1) :
                               x \in { Trace(c1, movers[i], StepsOf(d)) :
                                         d \in { d \in dfs : ~ScanPasses(d) } } }
                     \cup
                     UNION { Enter(Trace(c1, movers[i], StepsOf(df)), movers, i, df) :
                               df \in { d \in dfs : ScanPasses(d) } }
          : o \in Ends(c0, "futures_klines"), c \in Meanwhile(c0) }

\* Step 1 of the loop body: _spread_ok(sym, 0.0002)
Candidate(c0, movers, i) ==
    UNION { LET cb == FuturesOrderBook(c, movers[i], o)
                c1 == Trace(cb, movers[i], <<"spread">>)
            IN  IF cb.status # "run" THEN {cb}
                ELSE (IF \E ob \in Books(c, movers[i]) : SpreadRaises(ob)
                      THEN {Raise(cb, "exc")} ELSE {})
                     \cup
                     (IF \E ob \in Books(c, movers[i]) : ~SpreadVerdict[ob] /\ ~SpreadRaises(ob)
                      THEN ScanFrom(c1, movers, i + 1) ELSE {})
                     \cup
                     (IF \E ob \in Books(c, movers[i]) : SpreadVerdict[ob]
                      THEN AfterSpread(c1, movers, i) ELSE {})
          : o \in Ends(c0, "futures_order_book"), c \in Meanwhile(c0) }

\* for sym in movers: ...   (the loop ends at the first recorded entry)
ScanFrom(c, movers, i) ==
    IF i > Len(movers) THEN {c} ELSE Candidate(c, movers, i)

MoversLimit == 60

\* _scan_and_enter
ScanAndEnter(c0) ==
    UNION { LET c1 == FuturesTicker(c, o)
            IN  IF c1.status # "run" THEN {c1}
                ELSE UNION { IF movers = <<>> THEN {c1} ELSE ScanFrom(c1, movers, 1)
                           : movers \in { TopAltMovers(feed, MoversLimit) :
                                             feed \in Feeds(c) } }
          : o \in Ends(c0, "futures_ticker"), c \in Meanwhile(c0) }

----------------------------------------------------------------------------
(* The state machine *)

\* session_exclude = "01-04": the hours (UTC) in which the loop skips run_once
SessStart == 1
SessEnd == 4

\* The hours the clock is seen at: one outside the session and its two ends
Hours == {0, 1, 4}

\* if sess_start <= now_utc_hour <= sess_end: sleep and continue
SessionExcluded(hour) == SessStart <= hour /\ hour <= SessEnd

NoRounding == [step |-> 0, k |-> 0, tick |-> 0, m |-> 0, qty |-> FZero, price |-> 0,
               done |-> FALSE]

NoSignal == [len |-> 0, bb_w |-> <<>>, kc_w |-> <<>>, close |-> 0, vah |-> 0,
             rsi |-> <<>>, obv |-> <<>>, pdi |-> <<>>, entry |-> FALSE,
             exit |-> FALSE, done |-> FALSE]

NoSizing == [bal |-> 0, pos_pct |-> 0, lev |-> 0, price |-> 0, step |-> 0,
             qty |-> FZero, done |-> FALSE]

Flat == [s \in Symbols |-> FZero]

Init ==
    /\ open_symbol = None
    /\ stop_order_id = NoneId
    /\ tp_orders = [s \in {} |-> <<>>]
    /\ position = Flat
    /\ orders = {}
    /\ next_id = 1
    /\ entry_qty = FZero
    /\ calls = <<>>
    /\ last = [kind |-> "none", exit |-> FALSE, status |-> "run",
               open_symbol |-> None, stop_order_id |-> NoneId, tp_ids |-> <<>>,
               position |-> Flat, steps |-> <<>>, filled |-> 0]
    /\ ticks = 0
    /\ fills = 0
    /\ sz = NoSizing
    /\ env = FreeEnv
    /\ rnd = NoRounding
    /\ sig = NoSignal
    /\ utc_hour \in Hours

Context ==
    [open_symbol |-> open_symbol, stop_order_id |-> stop_order_id,
     tp_orders |-> tp_orders, position |-> position, orders |-> orders,
     next_id |-> next_id, entry_qty |-> entry_qty, calls |-> <<>>,
     status |-> "run", exit |-> FALSE, env |-> env, steps |-> <<>>,
     fills |-> fills]

\* run_once: monitor when a symbol is recorded, else scan; a
\* BinanceAPIException is caught and logged, anything else propagates.  The
\* set of ways one call of run_once can go up to its last exchange call, fills
\* during it included.
RunOnceRuns(c) ==
    IF c.open_symbol # None THEN MonitorPosition(c) ELSE ScanAndEnter(c)

\* One pass of main's loop outside the excluded session: engine.run_once().
\* A pass inside it sleeps and changes nothing (a stuttering step).  After its
\* last exchange call the tick has statements left (logging, the except
\* clause, the return), where the interrupt can still be raised.
RunOnce ==
    /\ ticks < MaxTicks
    /\ last.status # "int"
    /\ ~SessionExcluded(utc_hour)
    /\ \E x \in RunOnceRuns(Context) : \E r \in {x} \cup Interrupts({x}) :
        /\ open_symbol' = r.open_symbol
        /\ stop_order_id' = r.stop_order_id
        /\ tp_orders' = r.tp_orders
        /\ position' = r.position
        /\ orders' = r.orders
        /\ next_id' = r.next_id
        /\ entry_qty' = r.entry_qty
        /\ calls' = r.calls
        /\ fills' = r.fills
        /\ last' = [kind |-> IF open_symbol # None THEN "monitor" ELSE "scan",
                    exit |-> r.exit, status |-> r.status,
                    open_symbol |-> open_symbol, stop_order_id |-> stop_order_id,
                    tp_ids |-> TpIds(Context), position |-> position,
                    steps |-> r.steps, filled |-> r.fills - fills]
    /\ ticks' = ticks + 1
    /\ UNCHANGED <<sz, env, rnd, sig, utc_hour>>

\* The exchange fills a resting protective order (a SELL) between two ticks;
\* the fills during a tick are part of RunOnce (Meanwhile)
ExchangeFill ==
    /\ fills < MaxFills
    /\ \E x \in orders :
        /\ orders' = orders \ {x}
        /\ position' = [position EXCEPT ![x.sym] = FSub[@, x.qty]]
    /\ fills' = fills + 1
    /\ UNCHANGED <<open_symbol, stop_order_id, tp_orders, next_id, entry_qty,
                   calls, last, ticks, sz, env, rnd, sig, utc_hour>>

\* Time passes: the clock shows the next of its hours (the first one again
\* after the last)
HourPasses ==
    /\ LET later == { k \in Hours : k > utc_hour }
           next  == IF later = {} THEN Hours ELSE later
       IN  utc_hour' = CHOOSE k \in next : \A j \in next : k <= j
    /\ UNCHANGED <<open_symbol, stop_order_id, tp_orders, position, orders, next_id,
                   entry_qty, calls, last, ticks, fills, sz, env, rnd, sig>>

Next == RunOnce \/ ExchangeFill \/ HourPasses

Spec == Init /\ [][Next]_vars

----------------------------------------------------------------------------
(* The run loop with interruption: a KeyboardInterrupt can be raised at any *)
(* statement of run_once, during an exchange call or between two            *)
(* statements; it passes every `except Exception` and the                   *)
(* `except BinanceAPIException` of run_once, and main's handler exits the   *)
(* process (no further tick).  A call that is not interrupted is answered.  *)

LoopInit ==
    /\ open_symbol = None
    /\ stop_order_id = NoneId
    /\ tp_orders = [s \in {} |-> <<>>]
    /\ position = Flat
    /\ orders = {}
    /\ next_id = 1
    /\ entry_qty = FZero
    /\ calls = <<>>
    /\ last = [kind |-> "none", exit |-> FALSE, status |-> "run",
               open_symbol |-> None, stop_order_id |-> NoneId, tp_ids |-> <<>>,
               position |-> Flat, steps |-> <<>>, filled |-> 0]
    /\ ticks = 0
    /\ fills = 0
    /\ sz = NoSizing
    /\ env = SigintEnv
    /\ rnd = NoRounding
    /\ sig = NoSignal
    /\ utc_hour \in Hours

LoopSpec == LoopInit /\ [][Next]_vars

----------------------------------------------------------------------------
(* The endless loop of main.py (while True: engine.run_once(); sleep): a    *)
(* tick is always taken again, outside the excluded session, and the clock  *)
(* never stops. The state stays finite because a scan runs                  *)
(* only while the exchange has handed out fewer than MaxScanId order ids;   *)
(* monitoring ticks are never held back. ticks counts modulo MaxTicks + 1,  *)
(* so that every pass of the loop is a step that changes the state.         *)
(* Every exchange call is answered, with any data: whether the exit         *)
(* predicate fires is open at every tick.                                   *)

FairLoopInit ==
    /\ open_symbol = None
    /\ stop_order_id = NoneId
    /\ tp_orders = [s \in {} |-> <<>>]
    /\ position = Flat
    /\ orders = {}
    /\ next_id = 1
    /\ entry_qty = FZero
    /\ calls = <<>>
    /\ last = [kind |-> "none", exit |-> FALSE, status |-> "run",
               open_symbol |-> None, stop_order_id |-> NoneId, tp_ids |-> <<>>,
               position |-> Flat, steps |-> <<>>, filled |-> 0]
    /\ ticks = 0
    /\ fills = 0
    /\ sz = NoSizing
    /\ env = ReliableEnv
    /\ rnd = NoRounding
    /\ sig = NoSignal
    /\ utc_hour \in Hours

\* One pass of the loop body: engine.run_once(), whatever the tick count
LoopRunOnce ==
    /\ open_symbol # None \/ next_id <= MaxScanId
    /\ ~SessionExcluded(utc_hour)
    /\ \E x \in RunOnceRuns(Context) : \E r \in {x} \cup Interrupts({x}) :
        /\ open_symbol' = r.open_symbol
        /\ stop_order_id' = r.stop_order_id
        /\ tp_orders' = r.tp_orders
        /\ position' = r.position
        /\ orders' = r.orders
        /\ next_id' = r.next_id
        /\ entry_qty' = r.entry_qty
        /\ calls' = r.calls
        /\ fills' = r.fills
        /\ last' = [kind |-> IF open_symbol # None THEN "monitor" ELSE "scan",
                    exit |-> r.exit, status |-> r.status,
                    open_symbol |-> open_symbol, stop_order_id |-> stop_order_id,
                    tp_ids |-> TpIds(Context), position |-> position,
                    steps |-> r.steps, filled |-> r.fills - fills]
    /\ ticks' = (ticks + 1) % (MaxTicks + 1)
    /\ UNCHANGED <<sz, env, rnd, sig, utc_hour>>

FairLoopNext == LoopRunOnce \/ ExchangeFill \/ HourPasses

\* A step that is a pass of the loop body: it is allowed to run and the tick
\* counter moved. Among the steps of FairLoopNext these are exactly the
\* LoopRunOnce steps (ExchangeFill and HourPasses leave ticks alone, every
\* LoopRunOnce step moves it, and run_once always has an outcome), so
\* fairness on it is fairness on LoopRunOnce.
LoopTicked ==
    /\ open_symbol # None \/ next_id <= MaxScanId
    /\ ~SessionExcluded(utc_hour)
    /\ ticks' = (ticks + 1) % (MaxTicks + 1)

\* The clock never stops, and the loop never stops ticking: a pass takes
\* seconds and an hour outside the excluded session comes back every day, so
\* run_once is called again and again (strong fairness on the loop body)
FairLoopSpec ==
    FairLoopInit /\ [][FairLoopNext]_vars
        /\ WF_utc_hour(HourPasses) /\ SF_ticks(LoopTicked)

----------------------------------------------------------------------------
(* Ticks against one unchanging market snapshot: the same tickers, books,   *)
(* candles and balance, and the same outcome per kind of call, every tick   *)

\* Candles of a snapshot: none, too few, calm, predicates false, qualifying
SnapshotFrames(sym) ==
    { d \in ScanFrames(sym) :
        \/ d.len = 200 /\ d.sig_a = d.sig_b
        \/ d.len # 200 /\ d.sigma = 3 /\ d.sig_a /\ d.sig_b }

\* Kinds of call that are rejected in a snapshot
SnapshotFails ==
    { {}, {"futures_order_book"}, {"futures_change_leverage"}, {"STOP_MARKET"} }

Snapshots ==
    { [fixed |-> TRUE, sigint |-> FALSE, reliable |-> FALSE, feed |-> f, book |-> b, frame |-> fr,
       bal |-> bl, fails |-> fl] :
        f \in TickerFeeds,
        b \in [Symbols -> { ob \in OrderBooks : ~SpreadRaises(ob) }],
        fr \in { g \in [Symbols -> UNION { SnapshotFrames(x) : x \in Symbols }] :
                   \A x \in Symbols : g[x] \in SnapshotFrames(x) },
        bl \in Balances, fl \in SnapshotFails }

SnapshotInit ==
    /\ open_symbol = None
    /\ stop_order_id = NoneId
    /\ tp_orders = [s \in {} |-> <<>>]
    /\ position = Flat
    /\ orders = {}
    /\ next_id = 1
    /\ entry_qty = FZero
    /\ calls = <<>>
    /\ last = [kind |-> "none", exit |-> FALSE, status |-> "run",
               open_symbol |-> None, stop_order_id |-> NoneId, tp_ids |-> <<>>,
               position |-> Flat, steps |-> <<>>, filled |-> 0]
    /\ ticks = 0
    /\ fills = 0
    /\ sz = NoSizing
    /\ env \in Snapshots
    /\ rnd = NoRounding
    /\ sig = NoSignal
    /\ utc_hour \in Hours

SnapshotSpec == SnapshotInit /\ [][Next]_vars

\* top_alt_movers(limit=60) on the snapshot's tickers
SnapshotMovers == TopAltMovers(env.feed, MoversLimit)

----------------------------------------------------------------------------
(* The position sizer on its own: inputs drawn at Init, one Size step *)

SizerBalances == {-1, 0, 1, 7, 40, 1000}
SizerPosPcts == {0, 30, 100}
SizerLeverages == {1, 5, 10}
SizerPrices == {1500, 50000, 333330}
SizerSteps == {1, 10, 100}

SizerInit ==
    /\ open_symbol = None
    /\ stop_order_id = NoneId
    /\ tp_orders = [s \in {} |-> <<>>]
    /\ position = Flat
    /\ orders = {}
    /\ next_id = 1
    /\ entry_qty = FZero
    /\ calls = <<>>
    /\ last = [kind |-> "none", exit |-> FALSE, status |-> "run",
               open_symbol |-> None, stop_order_id |-> NoneId, tp_ids |-> <<>>,
               position |-> Flat, steps |-> <<>>, filled |-> 0]
    /\ ticks = 0
    /\ fills = 0
    /\ env = FreeEnv
    /\ rnd = NoRounding
    /\ sig = NoSignal
    /\ utc_hour = 0
    /\ sz \in [bal : SizerBalances, pos_pct : SizerPosPcts, lev : SizerLeverages,
                price : SizerPrices, step : SizerSteps, qty : {FZero},
                done : {FALSE}]

Size ==
    /\ ~sz.done
    /\ sz' = [sz EXCEPT !.qty = PositionSize(sz.bal, sz.pos_pct, sz.lev, sz.price,
                                              sz.step),
                        !.done = TRUE]
    /\ UNCHANGED <<open_symbol, stop_order_id, tp_orders, position, orders, next_id,
                   entry_qty, calls, last, ticks, fills, env, rnd, sig, utc_hour>>

SizerNext == Size

SizerSpec == SizerInit /\ [][SizerNext]_vars

----------------------------------------------------------------------------
(* The rounding functions on their own, applied to values that are already  *)
(* valid: the quantity k * step and the price m * tick                      *)

RoundSteps == {1, 10, 100}

\* Price ticks in price units: 0.001, 0.01, 0.1, 1 and 0.5
RoundTicks == {1, 10, 100, 1000, 500}

RoundInit ==
    /\ open_symbol = None
    /\ stop_order_id = NoneId
    /\ tp_orders = [s \in {} |-> <<>>]
    /\ position = Flat
    /\ orders = {}
    /\ next_id = 1
    /\ entry_qty = FZero
    /\ calls = <<>>
    /\ last = [kind |-> "none", exit |-> FALSE, status |-> "run",
               open_symbol |-> None, stop_order_id |-> NoneId, tp_ids |-> <<>>,
               position |-> Flat, steps |-> <<>>, filled |-> 0]
    /\ ticks = 0
    /\ fills = 0
    /\ sz = NoSizing
    /\ env = FreeEnv
    /\ sig = NoSignal
    /\ utc_hour = 0
    /\ rnd \in [step : RoundSteps, k : 0..MaxMultiple, tick : RoundTicks,
                 m : 0..MaxMultiple, qty : {FZero}, price : {0}, done : {FALSE}]

\* _round_qty(symbol, k * step) and round(m * tick, self._prec[symbol])
Round ==
    /\ ~rnd.done
    /\ rnd' = [rnd EXCEPT
                 !.qty = RoundQty[rnd.step, FromDec[rnd.k * rnd.step, 2]],
                 !.price = RoundPrice(FromDec[rnd.m * rnd.tick, 3],
                                      PricePrecision(rnd.tick)),
                 !.done = TRUE]
    /\ UNCHANGED <<open_symbol, stop_order_id, tp_orders, position, orders, next_id,
                   entry_qty, calls, last, ticks, fills, sz, env, sig, utc_hour>>

RoundNext == Round

RoundSpec == RoundInit /\ [][RoundNext]_vars

----------------------------------------------------------------------------
(* The signal predicates on their own, on the indicator values of the last  *)
(* bars of a frame (NaN: the rolling window of that bar is not yet filled)  *)

SignalLens == {50, 200}
SignalBbW == { <<1, 3>>, <<NaN, 3>>, <<1, NaN>>, <<3, 1>> }
SignalKcW == { <<2, 2>>, <<NaN, 2>>, <<2, NaN>> }
SignalVah == {NaN, 40, 60}
SignalTrends == { <<3, 2, 1>>, <<1, 2, 3>>, <<NaN, 2, 1>> }

SignalInit ==
    /\ open_symbol = None
    /\ stop_order_id = NoneId
    /\ tp_orders = [s \in {} |-> <<>>]
    /\ position = Flat
    /\ orders = {}
    /\ next_id = 1
    /\ entry_qty = FZero
    /\ calls = <<>>
    /\ last = [kind |-> "none", exit |-> FALSE, status |-> "run",
               open_symbol |-> None, stop_order_id |-> NoneId, tp_ids |-> <<>>,
               position |-> Flat, steps |-> <<>>, filled |-> 0]
    /\ ticks = 0
    /\ fills = 0
    /\ sz = NoSizing
    /\ env = FreeEnv
    /\ rnd = NoRounding
    /\ sig \in [len : SignalLens, bb_w : SignalBbW, kc_w : SignalKcW, close : {50},
                 vah : SignalVah, rsi : [1..3 -> RsiValues], obv : SignalTrends,
                 pdi : SignalTrends, entry : {FALSE}, exit : {FALSE},
                 done : {FALSE}]
    /\ utc_hour = 0

\* ttm_entry_signal(df) and exit_signal(df) on the frame
Evaluate ==
    /\ ~sig.done
    /\ sig' = [sig EXCEPT !.entry = TtmEntrySignal(sig),
                          !.exit = ExitSignal(sig.rsi),
                          !.done = TRUE]
    /\ UNCHANGED <<open_symbol, stop_order_id, tp_orders, position, orders, next_id,
                   entry_qty, calls, last, ticks, fills, sz, env, rnd, utc_hour>>

SignalNext == Evaluate

SignalSpec == SignalInit /\ [][SignalNext]_vars

\* x[1] > x[2] > x[3], all defined: falling over the last three bars
Falling(x) == GtVal(x[1], x[2]) /\ GtVal(x[2], x[3])

----------------------------------------------------------------------------
(* Reading the call log of the most recent tick *)

Idx == 1..Len(calls)

IsOrder(r) == r.op = "futures_create_order"
IsMarket(r) == IsOrder(r) /\ r.type = "MARKET"
IsProtective(r) == IsOrder(r) /\ r.type \in {"STOP_MARKET", "LIMIT"}
IsCancel(r) == r.op = "futures_cancel_order"
IsPositionQuery(r) == r.op = "futures_position_information"
IsBalance(r) == r.op = "futures_account_balance"

\* The market BUY of a scanning tick is the entry order
EntryAt(i) == last.kind = "scan" /\ IsMarket(calls[i]) /\ calls[i].side = "BUY"

\* The market order of a monitoring tick is the closing order
CloseAt(i) == last.kind = "monitor" /\ IsMarket(calls[i])

\* The candidate a call of a scanning tick belongs to: the symbol of the
\* nearest call, at or before it, that names one
CandidateOf(i) ==
    LET j == CHOOSE j \in 1..i :
                 /\ calls[j].sym # ""
                 /\ \A k \in (j + 1)..i : calls[k].sym = ""
    IN  calls[j].sym

\* What the engine decided in a tick: the calls it made, in order, without
\* what the exchange answered (result, value, order id)
Decisions(log) ==
    [i \in 1..Len(log) |->
       [op |-> log[i].op, sym |-> log[i].sym, side |-> log[i].side,
        type |-> log[i].type, qty |-> log[i].qty, price |-> log[i].price]]

\* Exchange calls of the loop body of _scan_and_enter, one candidate each:
\* order book, candles, balance, leverage, orders
EntryPathOps ==
    {"futures_order_book", "futures_klines", "futures_account_balance",
     "futures_change_leverage", "futures_create_order"}

\* A quantity as it is sent is a multiple of the step: the float of a decimal
\* n / 100 with n a whole number of steps (step in quantity units)
IsStepMultiple(qty, step) ==
    LET n == RoundHalfEven[qty, 2]
    IN  n % step = 0 /\ FromDec[n, 2] = qty

\* Order ids the engine had recorded for the open symbol when the tick began
RecordedIds == { last.tp_ids[k] : k \in 1..Len(last.tp_ids) } \cup {last.stop_order_id}

----------------------------------------------------------------------------
(* C1: at most one position is open across the universe: no market entry is  *)
(* submitted while a position from an earlier entry is still open on the     *)
(* exchange, and the engine never records more than one position.            *)
C1_SinglePosition ==
    /\ \A i \in Idx : EntryAt(i) => \A s \in Symbols : FSign[last.position[s]] <= 0
    /\ Cardinality({ s \in Symbols : FSign[position[s]] > 0 }) <= 1
    /\ Cardinality(DOMAIN tp_orders) <= 1

(* C2: at every tick boundary, a position that is open on the exchange has a *)
(* live stop-loss order on its symbol.                                       *)
C2_StopLossWhileOpen ==
    \A s \in Symbols :
        FSign[position[s]] > 0 =>
            \E x \in orders : x.sym = s /\ x.type = "STOP_MARKET" /\ x.side = "SELL"

(* C3: when the entry order was acknowledged and a later protective order of *)
(* the same tick failed, the tick ends with that symbol recorded as open.    *)
C3_PartialEntryRecorded ==
    \A i \in Idx : \A j \in Idx :
        ( /\ EntryAt(i) /\ calls[i].res = "ok"
          /\ i < j /\ IsProtective(calls[j]) /\ calls[j].res # "ok" )
        => open_symbol = calls[i].sym

(* C4: in a tick where the exit predicate fired, close_position is reached   *)
(* whatever the cancels returned: the live position is queried and, when the *)
(* query answers a non-zero size, the closing market order is submitted.     *)
C4_CancelNeverBlocksClose ==
    (last.kind = "monitor" /\ last.exit) =>
        \E j \in Idx :
            /\ IsPositionQuery(calls[j])
            /\ \A k \in 1..(j - 1) : IsCancel(calls[k]) \/ calls[k].op = "futures_klines"
            /\ (calls[j].res = "ok" /\ calls[j].val # FZero) =>
                   (j < Len(calls) /\ CloseAt(j + 1) /\ calls[j + 1].sym = last.open_symbol)

\* A closing order was submitted and acknowledged although every cancel failed
C4_Witness ==
    /\ last.kind = "monitor" /\ last.exit
    /\ \E i \in Idx : CloseAt(i) /\ calls[i].res = "ok"
    /\ Cardinality({ k \in Idx : IsCancel(calls[k]) }) = 3
    /\ \A k \in Idx : IsCancel(calls[k]) => calls[k].res # "ok"
    /\ \E k \in Idx : IsCancel(calls[k]) /\ calls[k].res = "exc"
    /\ \E k \in Idx : IsCancel(calls[k]) /\ calls[k].res = "api"

(* C5: the closing market order is submitted only after a cancel has been    *)
(* attempted, and has returned, for every recorded protective order of the   *)
(* open symbol (the stop-loss and each take-profit leg).                     *)
C5_CancelBeforeClose ==
    \A i \in Idx :
        CloseAt(i) =>
            \A id \in RecordedIds :
                \E j \in 1..(i - 1) :
                    /\ IsCancel(calls[j])
                    /\ calls[j].id = id
                    /\ calls[j].sym = last.open_symbol
                    /\ calls[j].res \in Outcomes

\* A closing order was submitted for a position with three recorded orders
C5_Witness ==
    /\ \E i \in Idx : CloseAt(i)
    /\ Cardinality(RecordedIds) = 3

(* C6: a protective order is submitted only after the market entry order of  *)
(* the same symbol was acknowledged earlier in the same tick; after a failed *)
(* entry order nothing more is submitted.                                    *)
C6_EntryBeforeProtective ==
    /\ \A j \in Idx :
         IsProtective(calls[j]) =>
             \E i \in 1..(j - 1) :
                 EntryAt(i) /\ calls[i].sym = calls[j].sym /\ calls[i].res = "ok"
    /\ \A i \in Idx :
         (EntryAt(i) /\ calls[i].res # "ok") => i = Len(calls)

\* A stop-loss and both take-profit legs were submitted after an entry
C6_Witness ==
    /\ \E j \in Idx : IsProtective(calls[j]) /\ calls[j].type = "STOP_MARKET"
    /\ Cardinality({ j \in Idx : IsProtective(calls[j]) /\ calls[j].type = "LIMIT" }) = 2

(* C7: the closing order is sized to the absolute live position the exchange *)
(* reported just before it in the same tick, on the opposite side; after a   *)
(* query that reports a flat position no order is submitted.                 *)
C7_CloseSizedToLivePosition ==
    /\ \A i \in Idx :
         CloseAt(i) =>
             /\ i > 1
             /\ IsPositionQuery(calls[i - 1]) /\ calls[i - 1].res = "ok"
             /\ calls[i - 1].val # FZero
             /\ calls[i].qty = [calls[i - 1].val EXCEPT !.s = 1]
             /\ calls[i].side = (IF FSign[calls[i - 1].val] > 0 THEN "SELL" ELSE "BUY")
    /\ \A i \in Idx :
         (IsPositionQuery(calls[i]) /\ calls[i].res = "ok" /\ calls[i].val = FZero)
         => (i = Len(calls) \/ ~IsOrder(calls[i + 1]))

\* A closing order whose quantity differs from the quantity entered with
C7_Witness ==
    \E i \in Idx : CloseAt(i) /\ calls[i].res = "ok" /\ calls[i].qty # entry_qty

\* A tick that found the position flat and sent nothing
C7_WitnessFlat ==
    /\ last.kind = "monitor" /\ last.exit
    /\ \E i \in Idx : IsPositionQuery(calls[i]) /\ calls[i].res = "ok" /\ calls[i].val = FZero
    /\ \A i \in Idx : ~IsOrder(calls[i])

(* C8: the sizer returns a non-negative integer multiple of quantityStep     *)
(* and, when it is positive, quantity x price is at least 97 % of            *)
(* balance x allocationFraction x leverage.                                  *)
C8_SizerContract ==
    sz.done =>
        /\ FSign[sz.qty] >= 0
        /\ IsStepMultiple(sz.qty, sz.step)
        /\ FSign[sz.qty] > 0 =>
             \* exact values: the float qty, the price p / 1000 and the
             \* target t / 100 with t = balance x percent x leverage
             LET t   == sz.bal * sz.pos_pct * sz.lev
                 lhs == BigTrim[BigMulR[sz.qty.m, BigOfInt[10 * sz.price]]]
                 rhs == BigOfInt[IF t < 0 THEN 0 ELSE 97 * t]
             IN  IF sz.qty.e >= 0 THEN BigCmp[BigShl[lhs, sz.qty.e], rhs] >= 0
                 ELSE BigCmp[lhs, BigShl[rhs, -sz.qty.e]] >= 0

(* C9: for a zero or negative target notional the sizer returns zero and the *)
(* candidate is skipped (no leverage-set and no order follows the balance    *)
(* query); for a positive target notional the entry goes ahead.              *)
C9_NonPositiveNotionalSkips ==
    \A i \in Idx :
        (IsBalance(calls[i]) /\ calls[i].res = "ok") =>
            LET tgt == FSign[TgtNotional(calls[i].val, PosPct, Leverage)]
                sym == calls[i - 1].sym
                goes == /\ i < Len(calls)
                        /\ calls[i + 1].op = "futures_change_leverage"
                        /\ calls[i + 1].sym = sym
            IN  /\ tgt <= 0 =>
                     /\ EntrySizes[calls[i].val][sym][ClosePrice(sym)] = FZero
                     /\ ~goes
                     /\ \A j \in Idx : j > i => ~(IsOrder(calls[j]) /\ calls[j].sym = sym)
                /\ tgt > 0 => goes

(* C10: every order submitted during entry has a quantity that is a multiple *)
(* of the symbol's quantity step and, for stop-loss and take-profit legs, a  *)
(* price that is a multiple of the symbol's price tick.                      *)
C10_EntryOrdersExchangeValid ==
    last.kind = "scan" =>
        \A i \in Idx :
            IsOrder(calls[i]) =>
                /\ IsStepMultiple(calls[i].qty, StepSize(calls[i].sym))
                /\ IsProtective(calls[i]) => calls[i].price % TickSize(calls[i].sym) = 0

(* C11: in a scanning tick, after a failed exchange call on the entry path   *)
(* of a candidate no further call is made for that candidate, and when the   *)
(* candidate is not the last of the list a call for the next one follows.    *)
C11_FailureTriesNextCandidate ==
    last.kind = "scan" =>
        \A i \in Idx :
            (calls[i].op \in EntryPathOps /\ calls[i].res # "ok") =>
                LET sym == CandidateOf(i)
                IN  /\ \A j \in Idx : j > i => CandidateOf(j) # sym
                    /\ \A k \in 1..(Len(SnapshotMovers) - 1) :
                          SnapshotMovers[k] = sym =>
                              \E j \in Idx : j > i /\ calls[j].sym = SnapshotMovers[k + 1]

(* C12: run_once returns normally whenever an exchange call of the tick      *)
(* failed: no exception reaches its caller, in the scan path and in the      *)
(* monitor/close path alike.                                                 *)
C12_RunOnceReturnsNormally ==
    (ticks > 0 /\ \E i \in Idx : calls[i].res # "ok") => last.status \in {"run", "api"}

(* C13: an interruption never ends the process in a tick whose market entry  *)
(* order was acknowledged before that tick has placed the stop-loss and both *)
(* take-profit orders and recorded the position.                             *)
C13_InterruptOnlyBetweenTicks ==
    last.status = "int" =>
        \A i \in Idx :
            (EntryAt(i) /\ calls[i].res = "ok") =>
                /\ open_symbol = calls[i].sym
                /\ Cardinality({ j \in Idx : j > i /\ IsProtective(calls[j])
                                               /\ calls[j].res = "ok" }) = 3

(* C14: against unchanged market data, a scanning tick that follows a        *)
(* scanning tick makes the same decisions (the same calls with the same      *)
(* arguments, in the same order), and a scanning tick in which no candidate  *)
(* reaches sizing leaves open_symbol, stop_order_id and tp_orders unchanged. *)
C14_Idempotent ==
    [][ /\ ( /\ ticks' = ticks + 1 /\ ticks >= 1
             /\ last.kind = "scan" /\ open_symbol = None )
           => Decisions(calls') = Decisions(calls)
        /\ ( /\ ticks' = ticks + 1 /\ open_symbol = None
             /\ \A i \in 1..Len(calls') :
                    calls'[i].op \notin {"futures_account_balance",
                                         "futures_change_leverage",
                                         "futures_create_order"} )
           => UNCHANGED <<open_symbol, stop_order_id, tp_orders>>
      ]_vars

\* Two scanning ticks in a row that each sent the same market entry
C14_Witness ==
    /\ env.fixed /\ ticks = 2 /\ last.kind = "scan" /\ open_symbol = None
    /\ \E i \in Idx : EntryAt(i) /\ calls[i].res = "ok"
    /\ \E s \in Symbols : /\ FSign[entry_qty] > 0
                           /\ position[s] = FAdd[entry_qty, entry_qty]

(* C15: rounding a quantity that is already a multiple of the quantity step *)
(* returns the same quantity, and rounding a price that is already a         *)
(* multiple of the price tick, to the precision derived from that tick,      *)
(* returns the same price.                                                   *)
C15_RoundingStable ==
    rnd.done =>
        /\ rnd.qty = FromDec[rnd.k * rnd.step, 2]
        /\ rnd.price = rnd.m * rnd.tick

(* C16: the entry predicate and the exit predicate never return true when   *)
(* one of the indicator values they read for the bars they consult is        *)
(* undefined.                                                                *)
C16_NoFireOnUndefined ==
    sig.done =>
        /\ sig.entry => /\ \A i \in 1..2 : sig.bb_w[i] # NaN /\ sig.kc_w[i] # NaN
                        /\ sig.vah # NaN /\ sig.close # NaN /\ sig.rsi[3] # NaN
        /\ sig.exit => \A i \in 1..3 : sig.rsi[i] # NaN

(* C17: the exit predicate returns true whenever OBV and +DI both fall       *)
(* monotonically over the last three bars, whatever the RSI is.              *)
C17_ExitOnFallingObvAndDi ==
    (sig.done /\ Falling(sig.obv) /\ Falling(sig.pdi)) => sig.exit

(* C18: a tick in which the exit predicate fired and the closing market     *)
(* order was acknowledged ends with open_symbol, stop_order_id and the       *)
(* take-profit ids of the symbol cleared, whatever the other calls returned. *)
C18_CloseEndsIdle ==
    (last.kind = "monitor" /\ last.exit /\ \E i \in Idx : CloseAt(i) /\ calls[i].res = "ok")
    => /\ open_symbol = None
       /\ stop_order_id = NoneId
       /\ last.open_symbol \notin DOMAIN tp_orders

(* C19: in a scanning tick where every exchange call succeeded, the symbol   *)
(* entered is the first mover, in top_alt_movers order, whose spread is      *)
(* tight, whose candles pass the volatility filter and the entry predicates, *)
(* and whose size is positive; no call is made for any later mover.          *)
C19_FirstQualifyingCandidate ==
    (env.fixed /\ last.kind = "scan" /\ \A i \in Idx : calls[i].res = "ok") =>
        LET m  == SnapshotMovers
            ok == { k \in 1..Len(m) :
                      LET df == env.frame[m[k]]
                      IN  /\ SpreadVerdict[env.book[m[k]]]
                          /\ df.len >= 60
                          /\ IF df.mu = 0 THEN df.sigma > 0 ELSE df.sigma >= 2 * df.mu
                          /\ df.sig_a /\ df.sig_b
                          /\ FSign[EntrySizes[env.bal][m[k]][df.close]] > 0 }
        IN  /\ ok = {} => (open_symbol = None /\ \A i \in Idx : ~IsOrder(calls[i]))
            /\ \A k \in ok :
                  (\A j \in ok : k <= j) =>
                      /\ open_symbol = m[k]
                      /\ \E i \in Idx : EntryAt(i) /\ calls[i].sym = m[k]
                      /\ \A i \in Idx : \A j \in (k + 1)..Len(m) : calls[i].sym # m[j]
                      /\ \A j \in 1..(k - 1) :
                            \E i \in Idx : calls[i].op = "futures_order_book"
                                            /\ calls[i].sym = m[j]

\* The first mover was examined and rejected, the second one was entered
C19_Witness ==
    /\ env.fixed /\ last.kind = "scan" /\ \A i \in Idx : calls[i].res = "ok"
    /\ Len(SnapshotMovers) = 2
    /\ open_symbol = SnapshotMovers[2]
    /\ \E i \in Idx : calls[i].op = "futures_klines" /\ calls[i].sym = SnapshotMovers[1]
    /\ \E i \in Idx : EntryAt(i) /\ calls[i].sym = SnapshotMovers[2]

\* All calls succeeded and the first mover was entered, the second never asked
C19_WitnessFirst ==
    /\ env.fixed /\ last.kind = "scan" /\ \A i \in Idx : calls[i].res = "ok"
    /\ Len(SnapshotMovers) = 2
    /\ open_symbol = SnapshotMovers[1]
    /\ SpreadVerdict[env.book[SnapshotMovers[2]]]
    /\ env.frame[SnapshotMovers[2]].sig_a /\ env.frame[SnapshotMovers[2]].sigma = 3
    /\ env.frame[SnapshotMovers[2]].len = 200

(* C20: for every candidate the spread filter and the volatility filter are *)
(* both evaluated before its indicators are computed, and a candidate that  *)
(* one of the two filters rejects never has its indicators computed.        *)
C20_FiltersBeforeIndicators ==
    \A i \in 1..Len(last.steps) :
        last.steps[i].step = "indicators" =>
            LET sym == last.steps[i].sym
            IN  /\ \E j \in 1..(i - 1) : /\ last.steps[j].sym = sym
                                          /\ last.steps[j].step = "spread"
                /\ \E j \in 1..(i - 1) : /\ last.steps[j].sym = sym
                                          /\ last.steps[j].step = "volatility"
                /\ SpreadVerdict[env.book[sym]]
                /\ VolOk(env.frame[sym])

(* C21: at every tick boundary the recorded state is consistent:            *)
(* stop_order_id is set exactly when open_symbol is set, and tp_orders has   *)
(* an entry for open_symbol and for no other symbol, also after ticks that   *)
(* an exchange failure aborted.                                              *)
C21_RecordedStateConsistent ==
    /\ (stop_order_id # NoneId) <=> (open_symbol # None)
    /\ DOMAIN tp_orders = IF open_symbol = None THEN {} ELSE {open_symbol}
    /\ open_symbol # None => Len(tp_orders[open_symbol]) = 2

\* Open after a monitor tick that a failed call aborted inside _close_position
C21_Witness ==
    /\ last.kind = "monitor" /\ last.exit /\ last.status = "api"
    /\ open_symbol # None /\ stop_order_id # NoneId
    /\ DOMAIN tp_orders = {open_symbol}

\* Idle again after an entry and a close, with a scan aborted before
C21_WitnessIdle ==
    /\ last.kind = "monitor" /\ last.exit /\ last.status = "run"
    /\ open_symbol = None /\ stop_order_id = NoneId /\ DOMAIN tp_orders = {}

(* C22: when the exchange position of the recorded symbol becomes flat      *)
(* while a symbol is recorded (stop-loss or take-profit filled), the engine  *)
(* eventually clears the record and is Idle again, under fair ticking.       *)
C22_FlatReturnsToIdle ==
    (open_symbol # None /\ position[open_symbol] = FZero /\ fills > 0)
        ~> (open_symbol = None)

(* C23: at every tick boundary every stop-loss or take-profit order the     *)
(* engine placed and that still rests on the exchange is recorded, as        *)
(* stop_order_id or among tp_orders of open_symbol; with no symbol recorded  *)
(* no order of the engine rests.                                             *)
C23_LiveOrdersRecorded ==
    \A x \in orders :
        /\ open_symbol # None
        /\ x.sym = open_symbol
        /\ \/ x.id = stop_order_id
           \/ /\ open_symbol \in DOMAIN tp_orders
              /\ \E k \in 1..Len(tp_orders[open_symbol]) : tp_orders[open_symbol][k] = x.id

====
